---- MODULE Spec2Model ----
(***************************************************************************)
(* Operation / ServiceRunner orchestration of the scenario-create route.   *)
(*                                                                         *)
(* The orchestrator code (startOperation, createScenario and the 'complete'*)
(* handler) is translated from app/routes/scenarios--create.js and from    *)
(* the older copy of the same route kept in app/config/offline.js.  The    *)
(* Operation and ServiceRunner classes (app/utils/operation,               *)
(* app/utils/service-runner) are imported by both files; their behaviour   *)
(* is taken from the design document (spec.md, sections 3, 4.1 and 4.2).   *)
(*                                                                         *)
(* Further parts: the duplicate route and its findName (scenarios--create),*)
(* the file DELETE route (offline.js) and the timematrix socket server     *)
(* with its forked calculation child (scripts/node/timematrix.js).         *)
(***************************************************************************)
EXTENDS Integers, Sequences, FiniteSets, TLC

(* ------------------------------ bounds -------------------------------- *)
MaxReq == 2
MaxProj == 1
MaxSc == 1
MaxName == 2
MaxFile == 1
MaxChild == 4
MaxMsg == 3

Reqs == 1..MaxReq
ProjIds == 1..MaxProj
ScIds == 1..MaxSc
Names == {<<n>> : n \in 1..MaxName}
FileIds == 1..MaxFile

(* ---------------------------- vocabulary ------------------------------ *)
OpName == "scenario-create"
Null == "null"
ErrMsgs == {"disk full"}
SpawnErr == "spawn failed"
Variants == {"routes", "offline"}
TerminalEvents == {"finish", "error"}
NoTriple == <<OpName, 0, 0>>
\* Error messages, as the words they are made of.  loadByData rejects with
\* NotFoundMsg when the triple has no Operation.
NoErr == <<>>
NotFoundMsg == <<"Operation", "does", "not", "exist">>
ConflictMsg == <<"Scenario", "creation", "already", "in", "progress">>
DbErrs == {<<"connection", "refused">>,
           <<"relation", "does", "not", "exist">>}
NoArgs == [projId |-> 0, scId |-> 0, opId |-> 0]
NoForm == [rnSource |-> "none", rnSourceScenario |-> 0, name |-> <<>>]
\* A scenario name is its base name followed by the (n) suffixes it was
\* given; <<0>> is the name of a project's main scenario.
MasterName == <<0>>
\* Every project comes with its main scenario.
MasterScenarios ==
  [p \in ProjIds |->
     [project_id |-> p, name |-> MasterName, status |-> "active"]]
Statuses == {"absent", "pending", "active"}
ProjectNotFoundMsg == <<"Project", "not", "found">>
ProjectPendingMsg == <<"Project", "setup", "not", "completed">>
CloneNotFoundMsg == <<"Source", "scenario", "for", "cloning", "not", "found">>
NameInUseMsg == <<"Scenario", "name", "already", "in", "use">>
ValidationErrs == {ProjectNotFoundMsg, ProjectPendingMsg, CloneNotFoundMsg}
ScenarioNotFoundMsg == <<"Scenario", "not", "found">>
\* What the database rejects an insert of a taken (project_id, name) with.
UniqueName == "scenarios_project_id_name_unique"
DuplicateKeyMsg == <<"duplicate", "key", "value">>
\* The file DELETE route.
NoDelete == [projId |-> 0, fileId |-> 0]
ProjectStatusMsg == <<"Project", "no", "longer", "in", "the", "setup", "phase">>
FileNotFoundMsg == <<"File", "not", "found">>
\* What the file storage rejects with.
S3Errs == {<<"bucket", "unreachable">>}
\* The payloads the routes accept after validation: roadNetworkSource is
\* osm, clone or new in scenarios--create.js (wbcatalog is handled as osm
\* is, with one more field in the job's data), clone or new in offline.js.
Forms ==
  {[rnSource |-> "osm", rnSourceScenario |-> 0, name |-> n] : n \in Names}
  \cup {[rnSource |-> "clone", rnSourceScenario |-> k, name |-> n] :
          k \in 1..(MaxSc + 1), n \in Names}
FormsOf(v) ==
  IF v = "routes" THEN Forms ELSE {f \in Forms : f.rnSource # "osm"}
\* The payloads that come with a new road network.
NewForms ==
  {[rnSource |-> "new", rnSourceScenario |-> 0, name |-> n] : n \in Names}

VARIABLES
  variant,    \* which copy of the route is deployed
  testMode,   \* process.env.DS_ENV === 'test'
  ops,        \* operations table: ops[id] = <<name, project_id, scenario_id>>
  logs,       \* operations log: logs[id] = entries of operation id, in order
  pc,         \* position of each request in startOperation / createScenario
  arg,        \* the triple each request runs the start protocol for
  loaded,     \* id of the Operation loadByData returned (0: NotFound)
  opId,       \* op.getId() of the Operation the request started (0: none)
  runner,     \* Service Runner of the request: none, started, completed
  job,        \* the external job: none, running, finalised, exited, failed
  err,        \* the error the completion signal carried (Null on success)
  invoked,    \* number of times the 'complete' handler was invoked
  hpc,        \* position inside the 'complete' handler
  handlers,   \* number of listeners registered on the runner's 'complete'
  jobFin,     \* the code the job itself passed to finish() (none: no call)
  payload,    \* projId, scId, opId createScenario was called with
  thrown,     \* message of the error that reached the route's catch
  lerr,       \* message of the error loadByData rejected with
  projects,   \* projects table: status of each project id (absent: no row)
  scenarios,  \* scenarios table: scenarios[id] = [project_id, name]
  form,       \* the validated payload of the request being handled
  ierr,       \* message of the error the scenario insert rejected with
  replies,    \* number of times the request's reply() was called
  no,         \* the suffix number findName is trying (0: not searching)
  files,      \* projects_files table: files[id] = owning project (0: no row)
  store,      \* ids of the files whose object is in the file storage
  dpc,        \* position of each request of the file DELETE route
  dparam,     \* projId and fileId of each file DELETE request
  derr,       \* message of the error a file DELETE request was replied
  child,      \* timematrix: state of every child forked so far
  cETA,       \* timematrix: the child the global cETA refers to
  closeL,     \* timematrix: 'close' listeners registered on each child
  msgL,       \* timematrix: 'message' listeners on each child, each with
              \* the remaining counter of its closure
  calls,      \* timematrix: createTimeMatrix calls made on each child
  csv,        \* timematrix: number of CSV files written
  up,         \* timematrix: the server process is running
  sent        \* timematrix: number of messages the children have sent

fileVars == <<files, store, dpc, dparam, derr>>
tmVars == <<child, cETA, closeL, msgL, calls, csv, up, sent>>
orchVars == <<variant, testMode, ops, logs, pc, arg, loaded, opId, runner,
              job, err, invoked, hpc, handlers, jobFin, payload, thrown,
              lerr, projects, scenarios, form, ierr, replies, no>>
vars == <<orchVars, fileVars, tmVars>>

(* ------------------------ Operation (log model) ----------------------- *)
Entry(event, data) == [event |-> event, data |-> data]

HasEvent(log, evs) == \E i \in 1..Len(log) : log[i].event \in evs

\* Operation.isCompleted(): a terminal event has been logged.
isCompleted(log) == HasEvent(log, TerminalEvents)

\* isStarted() that only looks for the start event.
isStartedSticky(log) == HasEvent(log, {"start"})

\* Operation.isStarted(): a start event and no terminal event yet.
isStarted(log) == HasEvent(log, {"start"}) /\ ~HasEvent(log, TerminalEvents)

\* log(event, data) appends one entry to the log of operation id.
AppendLog(ls, id, e) == [ls EXCEPT ![id] = Append(@, e)]

\* finish() that tags its entry with an event isCompleted() does not know.
FinishEntryUntagged(code, data) ==
  IF code = Null THEN Entry("complete", Null) ELSE Entry(code, data)

\* finish(code, data): appends the terminal entry; without a code the
\* terminal entry is the plain finish event.
FinishEntry(code, data) ==
  IF code = Null THEN Entry("finish", Null) ELSE Entry(code, data)

\* Ids of the operations of a triple, and the most recent of them.
OpsOf(t) == {i \in 1..Len(ops) : ops[i] = t}
MaxOf(S) == CHOOSE m \in S : \A x \in S : x <= m
MostRecent(t) == IF OpsOf(t) = {} THEN 0 ELSE MaxOf(OpsOf(t))

(* ------------------------------- Init --------------------------------- *)
\* The file DELETE route with no request and no file.
FileIdle ==
  /\ files = [f \in FileIds |-> 0]
  /\ store = {}
  /\ dpc = [r \in Reqs |-> "idle"]
  /\ dparam = [r \in Reqs |-> NoDelete]
  /\ derr = [r \in Reqs |-> NoErr]

\* A 'close' listener that is never registered.
CloseListenersNone == 1 - 1

\* cETA.on('close', function () {createChild()}) is called once on each
\* child createChild forks.
CloseListeners == 1

\* The timematrix server once its module is loaded: createChild() has run
\* once, cETA is the first child, with its 'close' listener.
TmStart ==
  /\ child = <<"live">>
  /\ cETA = 1
  /\ closeL = <<CloseListeners>>
  /\ msgL = << <<>> >>
  /\ calls = <<0>>
  /\ csv = 0
  /\ up = TRUE
  /\ sent = 0

Init ==
  /\ variant \in Variants
  /\ testMode \in BOOLEAN
  /\ ops = <<>>
  /\ logs = <<>>
  /\ pc = [r \in Reqs |-> "idle"]
  /\ arg = [r \in Reqs |-> NoTriple]
  /\ loaded = [r \in Reqs |-> 0]
  /\ opId = [r \in Reqs |-> 0]
  /\ runner = [r \in Reqs |-> "none"]
  /\ job = [r \in Reqs |-> "none"]
  /\ err = [r \in Reqs |-> Null]
  /\ invoked = [r \in Reqs |-> 0]
  /\ hpc = [r \in Reqs |-> "none"]
  /\ handlers = [r \in Reqs |-> 0]
  /\ jobFin = [r \in Reqs |-> "none"]
  /\ payload = [r \in Reqs |-> NoArgs]
  /\ thrown = [r \in Reqs |-> NoErr]
  /\ lerr = [r \in Reqs |-> NoErr]
  /\ projects = [p \in ProjIds |-> "active"]
  /\ scenarios = MasterScenarios
  /\ form = [r \in Reqs |-> NoForm]
  /\ ierr = [r \in Reqs |-> NoErr]
  /\ replies = [r \in Reqs |-> 0]
  /\ no = [r \in Reqs |-> 0]
  /\ FileIdle
  /\ TmStart

(* --------------------------- startOperation --------------------------- *)
\* A request enters startOperation(projId, scId).  Requests are numbered in
\* their order of arrival.
Call(r, p, s) ==
  /\ pc[r] = "idle"
  /\ \A q \in Reqs : q < r => pc[q] # "idle"
  /\ pc' = [pc EXCEPT ![r] = "load"]
  /\ arg' = [arg EXCEPT ![r] = <<OpName, p, s>>]
  /\ UNCHANGED <<variant, testMode, ops, logs, loaded, opId, runner, job,
                 err, invoked, hpc, handlers, jobFin,
                 payload, thrown, lerr, projects, scenarios, form,
                 ierr, replies, no, fileVars, tmVars>>

\* Conflict checks that test the wrong predicate, or nothing.
ConflictCheckCompleted(log) == isCompleted(log)
ConflictCheckNever(log) == FALSE

\* The conflict check of startOperation on the loaded operation.
ConflictCheck(log) == isStarted(log)

\* err.message.match(/not exist/)
MatchNotExist(m) ==
  \E i \in 1..(Len(m) - 1) : m[i] = "not" /\ m[i + 1] = "exist"

\* A rejection callback that re-throws whatever loadByData rejected with.
OnLoadErrorStrict(m) == "error"

\* The rejection callback of startOperation: a "not exist" error is not a
\* problem, any other error is thrown again.
OnLoadError(m) == IF MatchNotExist(m) THEN "start" ELSE "error"

\* op.loadByData('scenario-create', projId, scId) and the two callbacks of
\* the .then that follows it: conflict if the loaded operation is started,
\* go on if it is not or if none exists (NotFound, "not exist").
LoadByData(r) ==
  /\ pc[r] = "load"
  /\ loaded' = [loaded EXCEPT ![r] = MostRecent(arg[r])]
  /\ lerr' = [lerr EXCEPT ![r] =
        IF MostRecent(arg[r]) = 0 THEN NotFoundMsg ELSE NoErr]
  /\ pc' = [pc EXCEPT ![r] =
        IF MostRecent(arg[r]) = 0 THEN OnLoadError(NotFoundMsg)
        ELSE IF ConflictCheck(logs[MostRecent(arg[r])])
        THEN "conflict" ELSE "start"]
  /\ thrown' = [thrown EXCEPT ![r] =
        IF MostRecent(arg[r]) = 0
        THEN (IF OnLoadError(NotFoundMsg) = "error" THEN NotFoundMsg ELSE NoErr)
        ELSE IF ConflictCheck(logs[MostRecent(arg[r])])
        THEN ConflictMsg ELSE NoErr]
  /\ UNCHANGED <<variant, testMode, ops, logs, arg, opId, runner, job,
                 err, invoked, hpc, handlers, jobFin,
                 payload, projects, scenarios, form,
                 ierr, replies, no, fileVars, tmVars>>

\* loadByData rejects with a persistence error m.
LoadFails(r, m) ==
  /\ pc[r] = "load"
  /\ lerr' = [lerr EXCEPT ![r] = m]
  /\ pc' = [pc EXCEPT ![r] = OnLoadError(m)]
  /\ thrown' = [thrown EXCEPT ![r] =
        IF OnLoadError(m) = "error" THEN m ELSE NoErr]
  /\ UNCHANGED <<variant, testMode, ops, logs, arg, loaded, opId, runner,
                 job, err, invoked, hpc, handlers, jobFin,
                 payload, projects, scenarios, form,
                 ierr, replies, no, fileVars, tmVars>>

\* op.start() rejects with a persistence error m: nothing is written and
\* the error leaves startOperation.
StartFails(r, m) ==
  /\ pc[r] = "start"
  /\ pc' = [pc EXCEPT ![r] = "error"]
  /\ thrown' = [thrown EXCEPT ![r] = m]
  /\ UNCHANGED <<variant, testMode, ops, logs, arg, loaded, opId, runner,
                 job, err, invoked, hpc, handlers, jobFin,
                 payload, lerr, projects, scenarios, form,
                 ierr, replies, no, fileVars, tmVars>>

\* The last catch of the route replies the error that was thrown.
ReplyError(r) ==
  /\ pc[r] \in {"error", "conflict"}
  /\ pc' = [pc EXCEPT ![r] = "failed"]
  /\ replies' = [replies EXCEPT ![r] = @ + 1]
  /\ UNCHANGED <<variant, testMode, ops, logs, arg, loaded, opId, runner,
                 job, err, invoked, hpc, handlers, jobFin,
                 payload, thrown, lerr, projects, scenarios, form,
                 ierr, no, fileVars, tmVars>>

\* start() that writes the identity row only.
StartLogEmpty == <<>>

\* What Operation.start() writes as the log of the new operation.
StartLog == <<Entry("start", Null)>>

\* op.start('scenario-create', projId, scId): identity row plus first log
\* entry, id assigned.
OpStart(r) ==
  /\ pc[r] = "start"
  /\ ops' = Append(ops, arg[r])
  /\ logs' = Append(logs, StartLog)
  /\ opId' = [opId EXCEPT ![r] = Len(ops) + 1]
  /\ pc' = [pc EXCEPT ![r] = "log"]
  /\ UNCHANGED <<variant, testMode, arg, loaded, runner, job, err, invoked,
                 hpc, handlers, jobFin,
                 payload, thrown, lerr, projects, scenarios, form,
                 ierr, replies, no, fileVars, tmVars>>

\* Where the handler goes once startOperation has resolved: a new road
\* network is first uploaded (scenarios--create.js) or a presigned url for
\* it requested (offline.js); any other source goes to createScenario.
AfterStart(v, source) ==
  IF source # "new" THEN "create"
  ELSE IF v = "routes" THEN "upload" ELSE "presign"

\* op.log('start', {message: 'Operation started'})
OpLog(r) ==
  /\ pc[r] = "log"
  /\ logs' = AppendLog(logs, opId[r], Entry("start", "Operation started"))
  /\ pc' = [pc EXCEPT ![r] = AfterStart(variant, form[r].rnSource)]
  /\ UNCHANGED <<variant, testMode, ops, arg, loaded, opId, runner, job,
                 err, invoked, hpc, handlers, jobFin,
                 payload, thrown, lerr, projects, scenarios, form,
                 ierr, replies, no, fileVars, tmVars>>

\* The DataConflictError thrown by startOperation reaches the route's catch
\* and is replied to the caller.
ReplyConflict(r) ==
  /\ pc[r] = "conflict"
  /\ pc' = [pc EXCEPT ![r] = "failed"]
  /\ replies' = [replies EXCEPT ![r] = @ + 1]
  /\ UNCHANGED <<variant, testMode, ops, logs, arg, loaded, opId, runner,
                 job, err, invoked, hpc, handlers, jobFin,
                 payload, thrown, lerr, projects, scenarios, form,
                 ierr, no, fileVars, tmVars>>

(* --------------------------- createScenario --------------------------- *)
\* createScenario(projId, scId, opId, data): nothing in test mode, else a
\* ServiceRunner is built, its 'complete' handler registered, and started.
\* The handler registered twice.
ListenersTwice == 1 + 1

\* service.on('complete', ...) is called once on each runner.
Listeners == 1

\* A createScenario that ignores the test mode.
DryRunNever(tm) == FALSE

\* if (process.env.DS_ENV === 'test') { return action; }
DryRun(tm) == tm

\* Arguments that carry the id of the Operation loadByData returned.
CreateArgsLoaded(r) ==
  [projId |-> arg[r][2], scId |-> arg[r][3],
   opId |-> IF loaded[r] # 0 THEN loaded[r] ELSE opId[r]]

\* createScenario(params.projId, scenario.id, op.getId(), data)
CreateArgs(r) ==
  [projId |-> arg[r][2], scId |-> arg[r][3], opId |-> opId[r]]

CreateScenario(r) ==
  /\ pc[r] = "create"
  /\ pc' = [pc EXCEPT ![r] = "reply"]
  /\ runner' = [runner EXCEPT ![r] =
        IF DryRun(testMode) THEN "none" ELSE "started"]
  /\ handlers' = [handlers EXCEPT ![r] =
        IF DryRun(testMode) THEN 0 ELSE Listeners]
  /\ payload' = [payload EXCEPT ![r] =
        IF DryRun(testMode) THEN @ ELSE CreateArgs(r)]
  /\ UNCHANGED <<variant, testMode, ops, logs, arg, loaded, opId, job, err,
                 invoked, hpc, jobFin,
                 thrown, lerr, projects, scenarios, form,
                 ierr, replies, no, fileVars, tmVars>>

\* A reply that waits for the runner to complete.
CanReplyAfterJob(r) == pc[r] = "reply" /\ runner[r] # "started"

\* .then(() => scenario).then(scenario => reply(scenario)): the chain waits
\* for createScenario's promise only.
CanReply(r) == pc[r] = "reply"

\* reply(scenario)
Reply(r) ==
  /\ CanReply(r)
  /\ pc' = [pc EXCEPT ![r] = "done"]
  /\ replies' = [replies EXCEPT ![r] = @ + 1]
  /\ UNCHANGED <<variant, testMode, ops, logs, arg, loaded, opId, runner,
                 job, err, invoked, hpc, handlers, jobFin,
                 payload, thrown, lerr, projects, scenarios, form,
                 ierr, no, fileVars, tmVars>>

(* ---------------------- Service Runner and its job -------------------- *)
\* A handler without the if (err).
HandlerEntryAlways(e) == "load"

\* Where the 'complete' handler goes when invoked with error e: nothing to
\* do on success, reload the operation on error.
HandlerEntry(e) == IF e # Null THEN "load" ELSE "done"

\* service.emit('complete', e): the runner is over and every listener
\* registered on 'complete' is invoked with e.
Emit(r, e) ==
  /\ runner' = [runner EXCEPT ![r] = "completed"]
  /\ err' = [err EXCEPT ![r] = e]
  /\ invoked' = [invoked EXCEPT ![r] = @ + handlers[r]]
  /\ hpc' = [hpc EXCEPT ![r] = IF handlers[r] > 0 THEN HandlerEntry(e) ELSE @]

\* The job process is spawned.
JobSpawn(r) ==
  /\ runner[r] = "started" /\ job[r] = "none"
  /\ job' = [job EXCEPT ![r] = "running"]
  /\ UNCHANGED <<variant, testMode, ops, logs, pc, arg, loaded, opId,
                 runner, err, invoked, hpc, handlers, jobFin,
                 payload, thrown, lerr, projects, scenarios, form,
                 ierr, replies, no, fileVars, tmVars>>

\* The job cannot be spawned: completion with an error.
SpawnFail(r) ==
  /\ runner[r] = "started" /\ job[r] = "none"
  /\ job' = [job EXCEPT ![r] = "failed"]
  /\ Emit(r, SpawnErr)
  /\ UNCHANGED <<variant, testMode, ops, logs, pc, arg, loaded, opId,
                 handlers, jobFin,
                 payload, thrown, lerr, projects, scenarios, form,
                 ierr, replies, no, fileVars, tmVars>>

\* The job finalises its own operation: finish() on success, or
\* finish('error', {error}) when it caught an error itself.
JobFinalise(r, code, data) ==
  /\ runner[r] = "started" /\ job[r] = "running"
  /\ job' = [job EXCEPT ![r] = "finalised"]
  /\ jobFin' = [jobFin EXCEPT ![r] = code]
  /\ logs' = AppendLog(logs, payload[r].opId, FinishEntry(code, data))
  /\ UNCHANGED <<variant, testMode, ops, pc, arg, loaded, opId, runner,
                 err, invoked, hpc, handlers,
                 payload, thrown, lerr, projects, scenarios, form,
                 ierr, replies, no, fileVars, tmVars>>

\* The job process exits (cleanly, or crashing with message e).
JobExit(r, e) ==
  /\ runner[r] = "started" /\ job[r] \in {"running", "finalised"}
  /\ job' = [job EXCEPT ![r] = "exited"]
  /\ Emit(r, e)
  /\ UNCHANGED <<variant, testMode, ops, logs, pc, arg, loaded, opId,
                 handlers, jobFin,
                 payload, thrown, lerr, projects, scenarios, form,
                 ierr, replies, no, fileVars, tmVars>>

(* ------------------------ the 'complete' handler ---------------------- *)
\* A handler that does not look at the reloaded operation.
HandlerGuardAlways(log) == TRUE

\* The guard of the handler on the reloaded operation.
HandlerGuard(log) == ~isCompleted(log)

\* What the handler does with a not yet completed operation:
\* op.finish('error', {error}) in scenarios--create.js,
\* op.log('error', {error}).then(op => op.finish()) in offline.js.
HandlerNext(v) == IF v = "routes" THEN "finish" ELSE "log"

\* op.loadById(opId).then(op => { if (!op.isCompleted()) ... })
HLoadById(r) ==
  /\ hpc[r] = "load"
  /\ hpc' = [hpc EXCEPT ![r] =
        IF HandlerGuard(logs[payload[r].opId]) THEN HandlerNext(variant)
        ELSE "dropped"]
  /\ UNCHANGED <<variant, testMode, ops, logs, pc, arg, loaded, opId,
                 runner, job, err, invoked, handlers, jobFin,
                 payload, thrown, lerr, projects, scenarios, form,
                 ierr, replies, no, fileVars, tmVars>>

\* scenarios--create.js: op.finish('error', {error: err.message})
HFinishError(r) ==
  /\ hpc[r] = "finish"
  /\ logs' = AppendLog(logs, payload[r].opId, FinishEntry("error", err[r]))
  /\ hpc' = [hpc EXCEPT ![r] = "done"]
  /\ UNCHANGED <<variant, testMode, ops, pc, arg, loaded, opId, runner,
                 job, err, invoked, handlers, jobFin,
                 payload, thrown, lerr, projects, scenarios, form,
                 ierr, replies, no, fileVars, tmVars>>

\* offline.js: op.log('error', {error: err.message})
HLogError(r) ==
  /\ hpc[r] = "log"
  /\ logs' = AppendLog(logs, payload[r].opId, Entry("error", err[r]))
  /\ hpc' = [hpc EXCEPT ![r] = "fin"]
  /\ UNCHANGED <<variant, testMode, ops, pc, arg, loaded, opId, runner,
                 job, err, invoked, handlers, jobFin,
                 payload, thrown, lerr, projects, scenarios, form,
                 ierr, replies, no, fileVars, tmVars>>

\* offline.js: .then(op => op.finish())
HFinish(r) ==
  /\ hpc[r] = "fin"
  /\ logs' = AppendLog(logs, payload[r].opId, FinishEntry(Null, Null))
  /\ hpc' = [hpc EXCEPT ![r] = "done"]
  /\ UNCHANGED <<variant, testMode, ops, pc, arg, loaded, opId, runner,
                 job, err, invoked, handlers, jobFin,
                 payload, thrown, lerr, projects, scenarios, form,
                 ierr, replies, no, fileVars, tmVars>>

(* ------------------------------ Next ---------------------------------- *)
Next ==
  \/ \E r \in Reqs, p \in ProjIds, s \in ScIds : Call(r, p, s)
  \/ \E r \in Reqs : LoadByData(r)
  \/ \E r \in Reqs : OpStart(r)
  \/ \E r \in Reqs : OpLog(r)
  \/ \E r \in Reqs : ReplyConflict(r)
  \/ \E r \in Reqs : CreateScenario(r)
  \/ \E r \in Reqs : Reply(r)
  \/ \E r \in Reqs : JobSpawn(r)
  \/ \E r \in Reqs : SpawnFail(r)
  \/ \E r \in Reqs, c \in {Null, "error"}, d \in ErrMsgs : JobFinalise(r, c, d)
  \/ \E r \in Reqs, e \in {Null} \cup ErrMsgs : JobExit(r, e)
  \/ \E r \in Reqs : HLoadById(r)
  \/ \E r \in Reqs : HFinishError(r)
  \/ \E r \in Reqs : HLogError(r)
  \/ \E r \in Reqs : HFinish(r)

Spec == Init /\ [][Next]_vars

\* The same system on a persistence layer that can fail.
FaultNext ==
  \/ \E r \in Reqs, p \in ProjIds, s \in ScIds : Call(r, p, s)
  \/ \E r \in Reqs : LoadByData(r)
  \/ \E r \in Reqs, m \in DbErrs : LoadFails(r, m)
  \/ \E r \in Reqs : OpStart(r)
  \/ \E r \in Reqs, m \in DbErrs : StartFails(r, m)
  \/ \E r \in Reqs : OpLog(r)
  \/ \E r \in Reqs : ReplyError(r)
  \/ \E r \in Reqs : CreateScenario(r)
  \/ \E r \in Reqs : Reply(r)
  \/ \E r \in Reqs : JobSpawn(r)
  \/ \E r \in Reqs : SpawnFail(r)
  \/ \E r \in Reqs, c \in {Null, "error"}, d \in ErrMsgs : JobFinalise(r, c, d)
  \/ \E r \in Reqs, e \in {Null} \cup ErrMsgs : JobExit(r, e)
  \/ \E r \in Reqs : HLoadById(r)
  \/ \E r \in Reqs : HFinishError(r)
  \/ \E r \in Reqs : HLogError(r)
  \/ \E r \in Reqs : HFinish(r)

FaultSpec == Init /\ [][FaultNext]_vars

(* ------------------------ the route's handler ------------------------- *)
\* The state the route starts from: projects in any status, each existing
\* project with its main scenario.
HasProject(pr, row) == pr[row.project_id] # "absent"
MastersOf(pr) == SelectSeq(MasterScenarios, LAMBDA row : HasProject(pr, row))

RouteInit ==
  /\ variant \in Variants
  /\ testMode \in BOOLEAN
  /\ ops = <<>>
  /\ logs = <<>>
  /\ pc = [r \in Reqs |-> "idle"]
  /\ arg = [r \in Reqs |-> NoTriple]
  /\ loaded = [r \in Reqs |-> 0]
  /\ opId = [r \in Reqs |-> 0]
  /\ runner = [r \in Reqs |-> "none"]
  /\ job = [r \in Reqs |-> "none"]
  /\ err = [r \in Reqs |-> Null]
  /\ invoked = [r \in Reqs |-> 0]
  /\ hpc = [r \in Reqs |-> "none"]
  /\ handlers = [r \in Reqs |-> 0]
  /\ jobFin = [r \in Reqs |-> "none"]
  /\ payload = [r \in Reqs |-> NoArgs]
  /\ thrown = [r \in Reqs |-> NoErr]
  /\ lerr = [r \in Reqs |-> NoErr]
  /\ projects \in [ProjIds -> Statuses]
  /\ scenarios = MastersOf(projects)
  /\ form = [r \in Reqs |-> NoForm]
  /\ ierr = [r \in Reqs |-> NoErr]
  /\ replies = [r \in Reqs |-> 0]
  /\ no = [r \in Reqs |-> 0]
  /\ FileIdle
  /\ TmStart

\* handler(params, payload, reply) is entered with a validated payload.
HCall(r, p, f) ==
  /\ pc[r] = "idle"
  /\ \A q \in Reqs : q < r => pc[q] # "idle"
  /\ pc' = [pc EXCEPT ![r] = "vproj"]
  /\ arg' = [arg EXCEPT ![r] = <<OpName, p, 0>>]
  /\ form' = [form EXCEPT ![r] = f]
  /\ UNCHANGED <<variant, testMode, ops, logs, loaded, opId, runner, job,
                 err, invoked, hpc, handlers, jobFin, payload, thrown, lerr,
                 projects, scenarios,
                 ierr, replies, no, fileVars, tmVars>>

\* A project check that lets pending projects through.
ProjectCheckNoPending(status) ==
  IF status = "absent" THEN ProjectNotFoundMsg ELSE NoErr

\* if (!projects.length) throw new ProjectNotFoundError();
\* if (projects[0].status === 'pending') throw new DataConflictError(...)
ProjectCheck(status) ==
  IF status = "absent" THEN ProjectNotFoundMsg
  ELSE IF status = "pending" THEN ProjectPendingMsg
  ELSE NoErr

\* db('projects').select('status').where('id', params.projId)
ValidateProject(r) ==
  /\ pc[r] = "vproj"
  /\ pc' = [pc EXCEPT ![r] =
        IF ProjectCheck(projects[arg[r][2]]) = NoErr THEN "vclone"
        ELSE "error"]
  /\ thrown' = [thrown EXCEPT ![r] = ProjectCheck(projects[arg[r][2]])]
  /\ form' = [form EXCEPT ![r] =
        IF ProjectCheck(projects[arg[r][2]]) = NoErr THEN @ ELSE NoForm]
  /\ UNCHANGED <<variant, testMode, ops, logs, arg, loaded, opId, runner,
                 job, err, invoked, hpc, handlers, jobFin, payload, lerr,
                 projects, scenarios,
                 ierr, replies, no, fileVars, tmVars>>

\* The scenario with the given id exists in the project.
ScenarioIn(p, id) ==
  id \in 1..Len(scenarios) /\ scenarios[id].project_id = p

\* If we're cloning from a different scenario, make sure it exists.
CloneCheck(p, f) ==
  IF f.rnSource = "clone" /\ ~ScenarioIn(p, f.rnSourceScenario)
  THEN CloneNotFoundMsg ELSE NoErr

ValidateClone(r) ==
  /\ pc[r] = "vclone"
  /\ pc' = [pc EXCEPT ![r] =
        IF CloneCheck(arg[r][2], form[r]) = NoErr THEN "insert" ELSE "error"]
  /\ thrown' = [thrown EXCEPT ![r] = CloneCheck(arg[r][2], form[r])]
  /\ form' = [form EXCEPT ![r] =
        IF CloneCheck(arg[r][2], form[r]) = NoErr THEN @ ELSE NoForm]
  /\ UNCHANGED <<variant, testMode, ops, logs, arg, loaded, opId, runner,
                 job, err, invoked, hpc, handlers, jobFin, payload, lerr,
                 projects, scenarios,
                 ierr, replies, no, fileVars, tmVars>>

\* A scenarios table without the unique constraint.
NameTakenNever(p, n) == FALSE

\* The constraint scenarios_project_id_name_unique.
NameTaken(p, n) ==
  \E i \in 1..Len(scenarios) :
    scenarios[i].project_id = p /\ scenarios[i].name = n

\* A catch that turns every insert error into the name conflict.
InsertCatchAll(constraint, m) == NameInUseMsg

\* .catch(err => { if (err.constraint === 'scenarios_project_id_name_unique')
\*   throw new DataConflictError(...); throw err; })
InsertCatch(constraint, m) ==
  IF constraint = UniqueName THEN NameInUseMsg ELSE m

\* startOperation called for the scenario the new one is cloned from.
StartArgSource(r, id) ==
  IF form[r].rnSource = "clone"
  THEN <<OpName, arg[r][2], form[r].rnSourceScenario>>
  ELSE <<OpName, arg[r][2], id>>

\* startOperation(params.projId, scenario.id)
StartArg(r, id) == <<OpName, arg[r][2], id>>

\* What the later steps of the handler read of the payload: the name in
\* the error message, and whether a new road network comes with it.
Carried(f) ==
  [rnSource |-> IF f.rnSource = "new" THEN "new" ELSE "none",
   rnSourceScenario |-> 0, name |-> f.name]

\* db('scenarios').returning('*').insert(info) with its settings rows: the
\* scenario row gets the next id, and startOperation is called with it.
InsertScenario(r) ==
  /\ pc[r] = "insert"
  /\ IF NameTaken(arg[r][2], form[r].name)
     THEN /\ pc' = [pc EXCEPT ![r] = "error"]
          /\ ierr' = [ierr EXCEPT ![r] = DuplicateKeyMsg]
          /\ thrown' = [thrown EXCEPT ![r] =
                InsertCatch(UniqueName, DuplicateKeyMsg)]
          /\ UNCHANGED <<scenarios, arg>>
     ELSE /\ pc' = [pc EXCEPT ![r] = "load"]
          /\ scenarios' = Append(scenarios,
               [project_id |-> arg[r][2], name |-> form[r].name,
                status |-> "pending"])
          /\ arg' = [arg EXCEPT ![r] = StartArg(r, Len(scenarios) + 1)]
          /\ UNCHANGED <<thrown, ierr>>
  /\ form' = [form EXCEPT ![r] = Carried(@)]
  /\ UNCHANGED <<variant, testMode, ops, logs, loaded, opId, runner, job,
                 err, invoked, hpc, handlers, jobFin, payload, lerr,
                 projects, replies, no, fileVars, tmVars>>

\* The insert is rejected with a persistence error m that is not the
\* violation of the unique constraint.
InsertFails(r, m) ==
  /\ pc[r] = "insert"
  /\ pc' = [pc EXCEPT ![r] = "error"]
  /\ ierr' = [ierr EXCEPT ![r] = m]
  /\ thrown' = [thrown EXCEPT ![r] = InsertCatch(Null, m)]
  /\ form' = [form EXCEPT ![r] = Carried(@)]
  /\ UNCHANGED <<variant, testMode, ops, logs, arg, loaded, opId, runner,
                 job, err, invoked, hpc, handlers, jobFin, payload, lerr,
                 projects, scenarios, replies, no, fileVars, tmVars>>

\* An upload whose failure is swallowed.
UploadOutcomeIgnore(ok) == "create"

\* handleRoadNetworkUpload(...).then(res => Object.assign({}, data, res)):
\* createScenario is reached only when the upload resolved.
UploadOutcome(ok) == IF ok THEN "create" ELSE "error"

\* scenarios--create.js: putFileToS3, removeLocalFile resolve.
UploadOk(r) ==
  /\ pc[r] = "upload"
  /\ pc' = [pc EXCEPT ![r] = UploadOutcome(TRUE)]
  /\ UNCHANGED <<variant, testMode, ops, logs, arg, loaded, opId, runner,
                 job, err, invoked, hpc, handlers, jobFin, payload, thrown,
                 lerr, projects, scenarios, form, ierr, replies, no,
                 fileVars, tmVars>>

\* scenarios--create.js: putFileToS3 rejects with m.
UploadFails(r, m) ==
  /\ pc[r] = "upload"
  /\ pc' = [pc EXCEPT ![r] = UploadOutcome(FALSE)]
  /\ thrown' = [thrown EXCEPT ![r] = m]
  /\ UNCHANGED <<variant, testMode, ops, logs, arg, loaded, opId, runner,
                 job, err, invoked, hpc, handlers, jobFin, payload,
                 lerr, projects, scenarios, form, ierr, replies, no,
                 fileVars, tmVars>>

\* offline.js: getPresignedUrl resolves and the scenario is replied with
\* the url; the handler goes on to wait for the file.
PresignOk(r) ==
  /\ pc[r] = "presign"
  /\ pc' = [pc EXCEPT ![r] = "listen"]
  /\ replies' = [replies EXCEPT ![r] = @ + 1]
  /\ UNCHANGED <<variant, testMode, ops, logs, arg, loaded, opId, runner,
                 job, err, invoked, hpc, handlers, jobFin, payload, thrown,
                 lerr, projects, scenarios, form, ierr, no,
                 fileVars, tmVars>>

\* offline.js: getPresignedUrl rejects with m.
PresignFails(r, m) ==
  /\ pc[r] = "presign"
  /\ pc' = [pc EXCEPT ![r] = "error"]
  /\ thrown' = [thrown EXCEPT ![r] = m]
  /\ UNCHANGED <<variant, testMode, ops, logs, arg, loaded, opId, runner,
                 job, err, invoked, hpc, handlers, jobFin, payload,
                 lerr, projects, scenarios, form, ierr, replies, no,
                 fileVars, tmVars>>

\* offline.js: listenForFile resolves and createScenario is called; its
\* promise is not returned, the handler is over.
ListenOk(r) ==
  /\ pc[r] = "listen"
  /\ pc' = [pc EXCEPT ![r] = "done"]
  /\ runner' = [runner EXCEPT ![r] =
        IF DryRun(testMode) THEN "none" ELSE "started"]
  /\ handlers' = [handlers EXCEPT ![r] =
        IF DryRun(testMode) THEN 0 ELSE Listeners]
  /\ payload' = [payload EXCEPT ![r] =
        IF DryRun(testMode) THEN @ ELSE CreateArgs(r)]
  /\ UNCHANGED <<variant, testMode, ops, logs, arg, loaded, opId, job, err,
                 invoked, hpc, jobFin, thrown, lerr, projects, scenarios,
                 form, ierr, replies, no, fileVars, tmVars>>

\* offline.js: listenForFile rejects with m, which reaches the catches of
\* the route.
ListenFails(r, m) ==
  /\ pc[r] = "listen"
  /\ pc' = [pc EXCEPT ![r] = "error"]
  /\ thrown' = [thrown EXCEPT ![r] = m]
  /\ UNCHANGED <<variant, testMode, ops, logs, arg, loaded, opId, runner,
                 job, err, invoked, hpc, handlers, jobFin, payload,
                 lerr, projects, scenarios, form, ierr, replies, no,
                 fileVars, tmVars>>

\* The route on requests that clone a road network or take it from OSM.
RouteNext ==
  \/ \E r \in Reqs, p \in ProjIds, f \in FormsOf(variant) : HCall(r, p, f)
  \/ \E r \in Reqs : ValidateProject(r)
  \/ \E r \in Reqs : ValidateClone(r)
  \/ \E r \in Reqs : InsertScenario(r)
  \/ \E r \in Reqs : ReplyError(r)
  \/ \E r \in Reqs : LoadByData(r)
  \/ \E r \in Reqs : OpStart(r)
  \/ \E r \in Reqs : OpLog(r)
  \/ \E r \in Reqs : CreateScenario(r)
  \/ \E r \in Reqs : Reply(r)
  \/ \E r \in Reqs : JobSpawn(r)
  \/ \E r \in Reqs : SpawnFail(r)
  \/ \E r \in Reqs, c \in {Null, "error"}, d \in ErrMsgs : JobFinalise(r, c, d)
  \/ \E r \in Reqs, e \in {Null} \cup ErrMsgs : JobExit(r, e)
  \/ \E r \in Reqs : HLoadById(r)
  \/ \E r \in Reqs : HFinishError(r)
  \/ \E r \in Reqs : HLogError(r)
  \/ \E r \in Reqs : HFinish(r)

RouteSpec == RouteInit /\ [][RouteNext]_vars

\* The route on requests that upload a new road network, with a database
\* and a file storage that can fail.
UploadNext ==
  \/ \E r \in Reqs, p \in ProjIds, f \in NewForms : HCall(r, p, f)
  \/ \E r \in Reqs : ValidateProject(r)
  \/ \E r \in Reqs : ValidateClone(r)
  \/ \E r \in Reqs : InsertScenario(r)
  \/ \E r \in Reqs, m \in DbErrs : InsertFails(r, m)
  \/ \E r \in Reqs : ReplyError(r)
  \/ \E r \in Reqs : LoadByData(r)
  \/ \E r \in Reqs : OpStart(r)
  \/ \E r \in Reqs : OpLog(r)
  \/ \E r \in Reqs : UploadOk(r)
  \/ \E r \in Reqs, m \in S3Errs : UploadFails(r, m)
  \/ \E r \in Reqs : PresignOk(r)
  \/ \E r \in Reqs, m \in S3Errs : PresignFails(r, m)
  \/ \E r \in Reqs : ListenOk(r)
  \/ \E r \in Reqs, m \in S3Errs : ListenFails(r, m)
  \/ \E r \in Reqs : CreateScenario(r)
  \/ \E r \in Reqs : Reply(r)
  \/ \E r \in Reqs : JobSpawn(r)
  \/ \E r \in Reqs : SpawnFail(r)
  \/ \E r \in Reqs, c \in {Null, "error"}, d \in ErrMsgs : JobFinalise(r, c, d)
  \/ \E r \in Reqs, e \in {Null} \cup ErrMsgs : JobExit(r, e)
  \/ \E r \in Reqs : HLoadById(r)
  \/ \E r \in Reqs : HFinishError(r)
  \/ \E r \in Reqs : HLogError(r)
  \/ \E r \in Reqs : HFinish(r)

UploadSpec == RouteInit /\ [][UploadNext]_vars

(* ------------------------ the duplicate route ------------------------- *)
\* POST /projects/{projId}/scenarios/{scId}/duplicate
DCall(r, p, sc) ==
  /\ pc[r] = "idle"
  /\ \A q \in Reqs : q < r => pc[q] # "idle"
  /\ pc' = [pc EXCEPT ![r] = "dget"]
  /\ arg' = [arg EXCEPT ![r] = <<OpName, p, 0>>]
  /\ form' = [form EXCEPT ![r] =
        [rnSource |-> "clone", rnSourceScenario |-> sc, name |-> <<>>]]
  /\ UNCHANGED <<variant, testMode, ops, logs, loaded, opId, runner, job,
                 err, invoked, hpc, handlers, jobFin, payload, thrown, lerr,
                 projects, scenarios, ierr, replies, no, fileVars, tmVars>>

\* A findName that starts with the suffix (1).
FirstNoOne == 2 - 1

\* return fn(2);
FirstNo == 2

\* Get the name and description from the scenario.
DGet(r) ==
  /\ pc[r] = "dget"
  /\ IF ScenarioIn(arg[r][2], form[r].rnSourceScenario)
     THEN /\ pc' = [pc EXCEPT ![r] = "dfind"]
          /\ form' = [form EXCEPT ![r].name =
                scenarios[form[r].rnSourceScenario].name]
          /\ no' = [no EXCEPT ![r] = FirstNo]
          /\ UNCHANGED thrown
     ELSE /\ pc' = [pc EXCEPT ![r] = "error"]
          /\ thrown' = [thrown EXCEPT ![r] = ScenarioNotFoundMsg]
          /\ form' = [form EXCEPT ![r] = NoForm]
          /\ UNCHANGED no
  /\ UNCHANGED <<variant, testMode, ops, logs, arg, loaded, opId, runner,
                 job, err, invoked, hpc, handlers, jobFin, payload, lerr,
                 projects, scenarios, ierr, replies, fileVars, tmVars>>

\* let n = `${name} (${no})`
Suffixed(name, k) == Append(name, k)

\* db('scenarios').select('id').where('project_id', projId).where('name', n)
Lookup(p, n) ==
  \E i \in 1..Len(scenarios) :
    scenarios[i].project_id = p /\ scenarios[i].name = n

\* A search that skips a number when a name is taken.
NextNoSkip(k) == k + 2

\* fn(++no)
NextNo(k) == k + 1

\* One round of fn(no): the candidate is looked up; found, the next number
\* is tried; not found, the candidate is the name the payload is built
\* with and handler(request.params, payload, reply) is entered.
FindStep(r) ==
  /\ pc[r] = "dfind"
  /\ IF Lookup(arg[r][2], Suffixed(form[r].name, no[r]))
     THEN /\ no' = [no EXCEPT ![r] = NextNo(@)]
          /\ UNCHANGED <<pc, form>>
     ELSE /\ pc' = [pc EXCEPT ![r] = "vproj"]
          /\ form' = [form EXCEPT ![r].name = Suffixed(@, no[r])]
          /\ UNCHANGED no
  /\ UNCHANGED <<variant, testMode, ops, logs, arg, loaded, opId, runner,
                 job, err, invoked, hpc, handlers, jobFin, payload, thrown,
                 lerr, projects, scenarios, ierr, replies, fileVars, tmVars>>

\* The requests of the duplicate route, each up to its reply.  The jobs of
\* the runners they start touch no scenario row and are left to the
\* specifications of the create route.
DupNext ==
  \/ \E r \in Reqs, p \in ProjIds, sc \in 1..(MaxSc + 1) : DCall(r, p, sc)
  \/ \E r \in Reqs : DGet(r)
  \/ \E r \in Reqs : FindStep(r)
  \/ \E r \in Reqs : ValidateProject(r)
  \/ \E r \in Reqs : ValidateClone(r)
  \/ \E r \in Reqs : InsertScenario(r)
  \/ \E r \in Reqs : ReplyError(r)
  \/ \E r \in Reqs : LoadByData(r)
  \/ \E r \in Reqs : OpStart(r)
  \/ \E r \in Reqs : OpLog(r)
  \/ \E r \in Reqs : CreateScenario(r)
  \/ \E r \in Reqs : Reply(r)

DupInit == RouteInit /\ variant = "routes"

DupSpec == DupInit /\ [][DupNext]_vars

(* ------------------------ the file DELETE route ----------------------- *)
\* The state the route starts from: projects in any status, each file row
\* owned by an existing project (MaxProj + 1 stands for a project that no
\* request of the model addresses), each row with its stored object.
FileInit ==
  /\ variant = "offline"
  /\ testMode = FALSE
  /\ ops = <<>>
  /\ logs = <<>>
  /\ pc = [r \in Reqs |-> "idle"]
  /\ arg = [r \in Reqs |-> NoTriple]
  /\ loaded = [r \in Reqs |-> 0]
  /\ opId = [r \in Reqs |-> 0]
  /\ runner = [r \in Reqs |-> "none"]
  /\ job = [r \in Reqs |-> "none"]
  /\ err = [r \in Reqs |-> Null]
  /\ invoked = [r \in Reqs |-> 0]
  /\ hpc = [r \in Reqs |-> "none"]
  /\ handlers = [r \in Reqs |-> 0]
  /\ jobFin = [r \in Reqs |-> "none"]
  /\ payload = [r \in Reqs |-> NoArgs]
  /\ thrown = [r \in Reqs |-> NoErr]
  /\ lerr = [r \in Reqs |-> NoErr]
  /\ projects \in [ProjIds -> Statuses]
  /\ scenarios = MastersOf(projects)
  /\ form = [r \in Reqs |-> NoForm]
  /\ ierr = [r \in Reqs |-> NoErr]
  /\ replies = [r \in Reqs |-> 0]
  /\ no = [r \in Reqs |-> 0]
  /\ files \in [FileIds -> 0..(MaxProj + 1)]
  /\ \A f \in FileIds : files[f] \in ProjIds => projects[files[f]] # "absent"
  /\ store = {f \in FileIds : files[f] # 0}
  /\ dpc = [r \in Reqs |-> "idle"]
  /\ dparam = [r \in Reqs |-> NoDelete]
  /\ derr = [r \in Reqs |-> NoErr]
  /\ TmStart

\* DELETE /projects/{projId}/files/{fileId}
FCall(r, p, f) ==
  /\ dpc[r] = "idle"
  /\ \A q \in Reqs : q < r => dpc[q] # "idle"
  /\ dpc' = [dpc EXCEPT ![r] = "query"]
  /\ dparam' = [dparam EXCEPT ![r] = [projId |-> p, fileId |-> f]]
  /\ UNCHANGED <<orchVars, files, store, derr, tmVars>>

\* The checks made in another order: the file first.
FileCheckFileFirst(status, owner, p) ==
  IF status = "absent" THEN ProjectNotFoundMsg
  ELSE IF owner # p THEN FileNotFoundMsg
  ELSE IF status # "pending" THEN ProjectStatusMsg
  ELSE NoErr

\* The three checks on the row of the left join: no row when the project
\* does not exist; file_id is null when no file with that id belongs to
\* the project.
FileCheck(status, owner, p) ==
  IF status = "absent" THEN ProjectNotFoundMsg
  ELSE IF status # "pending" THEN ProjectStatusMsg
  ELSE IF owner # p THEN FileNotFoundMsg
  ELSE NoErr

\* db('projects').select(...).leftJoin('projects_files', ...).then(res => ...)
FQuery(r) ==
  /\ dpc[r] = "query"
  /\ derr' = [derr EXCEPT ![r] =
        FileCheck(projects[dparam[r].projId], files[dparam[r].fileId],
                  dparam[r].projId)]
  /\ dpc' = [dpc EXCEPT ![r] =
        IF FileCheck(projects[dparam[r].projId], files[dparam[r].fileId],
                     dparam[r].projId) = NoErr
        THEN "del" ELSE "error"]
  /\ UNCHANGED <<orchVars, files, store, dparam, tmVars>>

\* db('projects_files').where('id', data.file_id).del()
FDelRow(r) ==
  /\ dpc[r] = "del"
  /\ files' = [files EXCEPT ![dparam[r].fileId] = 0]
  /\ dpc' = [dpc EXCEPT ![r] = "rm"]
  /\ UNCHANGED <<orchVars, store, dparam, derr, tmVars>>

\* .then(() => removeFile(data.file_path))
FRemoveFile(r) ==
  /\ dpc[r] = "rm"
  /\ store' = store \ {dparam[r].fileId}
  /\ dpc' = [dpc EXCEPT ![r] = "reply"]
  /\ UNCHANGED <<orchVars, files, dparam, derr, tmVars>>

\* reply({statusCode: 200, message: 'File deleted'}), or
\* reply(getBoomResponseForError(err)) from the catch.
FReply(r) ==
  /\ dpc[r] \in {"reply", "error"}
  /\ dpc' = [dpc EXCEPT ![r] = IF dpc[r] = "reply" THEN "done" ELSE "failed"]
  /\ UNCHANGED <<orchVars, files, store, dparam, derr, tmVars>>

FileNext ==
  \/ \E r \in Reqs, p \in ProjIds, f \in FileIds : FCall(r, p, f)
  \/ \E r \in Reqs : FQuery(r)
  \/ \E r \in Reqs : FDelRow(r)
  \/ \E r \in Reqs : FRemoveFile(r)
  \/ \E r \in Reqs : FReply(r)

FileSpec == FileInit /\ [][FileNext]_vars

(* ------------------------ the timematrix server ----------------------- *)
\* The identifiers the module declares (var ... at its top level), the
\* locals of createTimeMatrix, and the identifiers the argument of
\* cETA.send reads.
ModuleVars == {"app", "io", "fs", "within", "point", "buffer",
               "featurecollection", "OSRM", "Isochrone", "d3", "turf",
               "mkdirp", "os", "async", "fork", "cETA", "POIs", "villages",
               "osrm", "dir", "maxSpeed", "maxTime"}
LocalVars == {"socket", "beginTime", "data", "box", "extent", "squares",
              "remaining"}
SendRefs == {"cETA", "data", "squares", "POIS", "villages", "osrm"}

\* Reading an identifier nothing declares throws a ReferenceError.
Throws(refs) == ~(refs \subseteq (ModuleVars \cup LocalVars))

TmInit == Init /\ variant = "routes" /\ testMode = FALSE

\* The child c exits and emits 'close'; its listener, if it has one, runs
\* createChild(): a new child is forked, cETA refers to it, and the new
\* child gets its own 'close' listener.
ChildClose(c) ==
  /\ up
  /\ c \in 1..Len(child) /\ child[c] = "live"
  /\ Len(child) < MaxChild
  /\ IF closeL[c] > 0
     THEN /\ child' = Append([child EXCEPT ![c] = "closed"], "live")
          /\ cETA' = Len(child) + 1
          /\ closeL' = Append(closeL, CloseListeners)
          /\ msgL' = Append(msgL, <<>>)
          /\ calls' = Append(calls, 0)
     ELSE /\ child' = [child EXCEPT ![c] = "closed"]
          /\ UNCHANGED <<cETA, closeL, msgL, calls>>
  /\ UNCHANGED <<orchVars, fileVars, csv, up, sent>>

\* createTimeMatrix(data) with a data.feature that splits in n squares (a
\* call without data.feature returns at once).  Evaluating the argument of
\* cETA.send throws before anything is sent and before the 'message'
\* listener is registered; whether the exception stops the process is up
\* to the socket library that called the listener.  Had the argument been
\* evaluated, the listener would be added to the present child with
\* remaining = n.
CreateTimeMatrix(n, crash) ==
  /\ up
  /\ calls[cETA] < MaxReq
  /\ calls' = [calls EXCEPT ![cETA] = @ + 1]
  /\ IF Throws(SendRefs)
     THEN /\ up' = ~crash
          /\ UNCHANGED msgL
     ELSE /\ msgL' = [msgL EXCEPT ![cETA] = Append(@, n)]
          /\ UNCHANGED up
  /\ UNCHANGED <<orchVars, fileVars, child, cETA, closeL, csv, sent>>

\* What one listener does to its remaining counter on a message.
OnMessage(type, remaining) ==
  IF type = "square" THEN remaining - 1 ELSE remaining

\* The child c sends a message: every 'message' listener registered on it
\* handles it; each listener writes one CSV file on 'done'.
ChildMessage(c, type) ==
  /\ up
  /\ c \in 1..Len(child) /\ child[c] = "live"
  /\ sent < MaxMsg
  /\ sent' = sent + 1
  /\ msgL' = [msgL EXCEPT ![c] =
        [i \in 1..Len(msgL[c]) |-> OnMessage(type, msgL[c][i])]]
  /\ csv' = IF type = "done" THEN csv + Len(msgL[c]) ELSE csv
  /\ UNCHANGED <<orchVars, fileVars, child, cETA, closeL, calls, up>>

TmNext ==
  \/ \E c \in 1..MaxChild : ChildClose(c)
  \/ \E n \in 1..MaxMsg, crash \in BOOLEAN : CreateTimeMatrix(n, crash)
  \/ \E c \in 1..MaxChild, t \in {"status", "square", "done"} :
        ChildMessage(c, t)

TmSpec == TmInit /\ [][TmNext]_vars

(* ============================== claims ================================ *)
Last(log) == log[Len(log)]
CountEvents(log, evs) == Cardinality({i \in 1..Len(log) : log[i].event \in evs})
Started(id) == isStarted(logs[id])
Completed(id) == isCompleted(logs[id])
OpIds == 1..Len(ops)

\* C1: when the most recent Operation of the triple is started and not
\* terminated at the time startOperation loads it, the run ends in
\* DataConflictError and starts nothing: the load step adds no Operation
\* row, no log entry and no runner, and the failed request never gets an
\* Operation or a Service Runner afterwards.
C1_ConflictStartsNothing ==
  [][\A r \in Reqs :
       /\ (/\ pc[r] = "load" /\ pc'[r] # "load"
           /\ MostRecent(arg[r]) # 0
           /\ Started(MostRecent(arg[r])))
          => (/\ pc'[r] = "conflict"
              /\ ops' = ops /\ logs' = logs
              /\ runner' = runner /\ job' = job)
       /\ (pc[r] \in {"conflict", "failed"})
          => (/\ pc'[r] \in {"conflict", "failed"}
              /\ opId'[r] = 0 /\ runner'[r] = "none" /\ handlers'[r] = 0)
    ]_vars

C1_Witness ==
  \E r \in Reqs :
    /\ pc[r] = "failed" /\ opId[r] = 0 /\ runner[r] = "none"
    /\ loaded[r] # 0 /\ Started(loaded[r])
    /\ Cardinality(OpsOf(arg[r])) = 1

\* Two requests raced: q checked before r's Operation existed, and started
\* its own Operation after r's.
Raced(r, q) ==
  /\ r # q /\ arg[r] = arg[q]
  /\ opId[r] # 0 /\ opId[q] # 0
  /\ loaded[q] < opId[r] /\ opId[r] < opId[q]

TwoStarted(t) ==
  \E i, j \in OpsOf(t) : i < j /\ Started(i) /\ Started(j)

\* C2: two started, non-terminated Operations of one triple can exist, and
\* they exist only when two runs of startOperation for the triple
\* interleaved: one passed its check before the other called start().
C2_DoubleStartOnlyByRace ==
  \A p \in ProjIds, s \in ScIds :
    TwoStarted(<<OpName, p, s>>) =>
      \E r, q \in Reqs : arg[r] = <<OpName, p, s>> /\ Raced(r, q)

C2_Witness ==
  \E r, q \in Reqs :
    /\ Raced(r, q)
    /\ Started(opId[r]) /\ Started(opId[q])
    /\ job[r] = "running" /\ job[q] = "running"

\* C3: after a run of the start protocol and a second, serialized run for
\* the same triple that ended in the conflict, the triple has exactly one
\* Operation row and its log holds a single start entry.
C3_SingleStartEntry ==
  \A r, q \in Reqs :
    (/\ r # q /\ arg[r] = arg[q]
     /\ \A x \in Reqs : arg[x] = arg[r] => x \in {r, q}
     /\ pc[r] \in {"create", "reply", "done"}
     /\ pc[q] \in {"conflict", "failed"} /\ loaded[q] = opId[r])
    => (/\ Cardinality(OpsOf(arg[r])) = 1
        /\ CountEvents(logs[opId[r]], {"start"}) = 1)

\* C4: after the handler ran for a completion with an error on an Operation
\* that was not completed, the log holds exactly one error entry, carrying
\* the error message, it is the last entry, and isCompleted() is true.
C4_ErrorEntryLast ==
  \A r \in Reqs :
    (hpc[r] = "done" /\ err[r] # Null) =>
      /\ Last(logs[opId[r]]) = Entry("error", err[r])
      /\ CountEvents(logs[opId[r]], {"error"}) = 1
      /\ Completed(opId[r])

\* C5: when the handler, invoked with an error, reloads an Operation that is
\* already completed, it appends nothing, the error is dropped (the request
\* is not affected), and the handler never touches the log afterwards.
C5_CompletedErrorDropped ==
  [][\A r \in Reqs :
       /\ (hpc[r] = "load" /\ hpc'[r] # "load" /\ Completed(opId[r]))
          => (hpc'[r] = "dropped" /\ logs' = logs /\ pc' = pc)
       /\ (hpc[r] = "dropped")
          => (hpc'[r] = "dropped" /\ logs'[opId[r]] = logs[opId[r]])
    ]_vars

C5_Witness ==
  \E r \in Reqs :
    /\ hpc[r] = "dropped" /\ err[r] # Null
    /\ Completed(opId[r]) /\ jobFin[r] # "none"

\* C6: every Operation's log is append-only, starts with the start event,
\* and holds at most one terminal event, which is then its last entry.
LogShape(log) ==
  /\ Len(log) > 0 => log[1].event = "start"
  /\ CountEvents(log, TerminalEvents) <= 1
  /\ \A i \in 1..Len(log) : log[i].event \in TerminalEvents => i = Len(log)

IsPrefix(a, b) == Len(a) <= Len(b) /\ \A i \in 1..Len(a) : a[i] = b[i]

C6_LogDiscipline ==
  /\ [](\A id \in OpIds : LogShape(logs[id]))
  /\ [][\A id \in OpIds : IsPrefix(logs[id], logs'[id])]_vars

\* C7: from start() on, as long as no terminal entry has been appended to
\* an Operation, isStarted() is true and isCompleted() is false.
C7_StartedUntilTerminal ==
  \A id \in OpIds :
    ~HasEvent(logs[id], TerminalEvents) => (Started(id) /\ ~Completed(id))

C7_Witness ==
  \E r \in Reqs : pc[r] = "log" /\ Started(opId[r]) /\ ~Completed(opId[r])

\* C8: once the runner completed without error and finish() was called on
\* the Operation, isCompleted() is true and isStarted() is false, and both
\* stay so.
FinishedOk(r) ==
  runner[r] = "completed" /\ err[r] = Null /\ jobFin[r] = Null

C8_FinishedStaysCompleted ==
  /\ [](\A r \in Reqs :
          FinishedOk(r) => (Completed(opId[r]) /\ ~Started(opId[r])))
  /\ [][\A r \in Reqs :
          (FinishedOk(r) /\ Completed(opId[r]))
          => (isCompleted(logs'[opId[r]]) /\ ~isStarted(logs'[opId[r]]))
       ]_vars

C8_Witness ==
  \E r \in Reqs : FinishedOk(r) /\ hpc[r] = "done" /\ Completed(opId[r])

\* C9: for every persisted Operation exactly one of isStarted() and
\* isCompleted() is true.
C9_StatusExclusive ==
  \A id \in OpIds : Started(id) # Completed(id)

C9_Witness ==
  \E i, j \in OpIds : Started(i) /\ ~Completed(i) /\ Completed(j) /\ ~Started(j)

\* C10: the 'complete' handler of a runner is never invoked more than once;
\* it has been invoked exactly once, with null or an error, when the run is
\* over, and with an error when the job could not be spawned.
C10_HandlerOnce ==
  \A r \in Reqs :
    /\ invoked[r] <= 1
    /\ runner[r] = "started" => invoked[r] = 0
    /\ (runner[r] = "completed" \/ job[r] \in {"exited", "failed"})
       => (invoked[r] = 1 /\ err[r] \in {Null, SpawnErr} \cup ErrMsgs)
    /\ job[r] = "failed" => (invoked[r] = 1 /\ err[r] # Null)

C10_Witness ==
  \E r, q \in Reqs :
    /\ job[r] = "failed" /\ invoked[r] = 1 /\ hpc[r] # "none"
    /\ job[q] = "exited" /\ invoked[q] = 1


\* The Operation a dispatched runner was given.
Dispatched(r) == runner[r] # "none"
OpOf(r) == payload[r].opId

\* C11: no two Service Runners are ever dispatched with the same opId, and
\* a request dispatches at most one runner, for the Operation it started.
C11_OneRunnerPerOperation ==
  /\ [](\A r, q \in Reqs :
          (Dispatched(r) /\ Dispatched(q) /\ r # q) => OpOf(r) # OpOf(q))
  /\ [][\A r \in Reqs :
          Dispatched(r) => (Dispatched(r)' /\ payload'[r] = payload[r])]_vars

C11_Witness ==
  \E r, q \in Reqs :
    /\ r # q /\ arg[r] = arg[q]
    /\ runner[r] = "started" /\ runner[q] = "started"
    /\ OpOf(r) # OpOf(q)

\* C12: in test mode createScenario builds and starts no Service Runner,
\* and every Operation a request started stays started and not completed.
C12_DryRunStaysStarted ==
  testMode =>
    /\ \A r \in Reqs :
         /\ runner[r] = "none" /\ handlers[r] = 0 /\ job[r] = "none"
         /\ payload[r] = NoArgs /\ hpc[r] = "none"
    /\ \A id \in OpIds : Started(id) /\ ~Completed(id)

C12_Witness ==
  \E r \in Reqs :
    testMode /\ pc[r] = "done" /\ Started(opId[r]) /\ runner[r] = "none"

\* C13: the reply is enabled as soon as createScenario has returned,
\* whatever the runner and its job are doing, and once the scenario has
\* been replied no completion, and no step of the handler, changes it.
C13_ReplyDoesNotWait ==
  /\ [](\A r \in Reqs : pc[r] = "reply" => ENABLED Reply(r))
  /\ [][\A r \in Reqs :
          /\ pc[r] = "done" => pc'[r] = "done"
          /\ (\/ hpc'[r] # hpc[r]
              \/ (runner[r] = "started" /\ runner'[r] = "completed"))
             => (pc' = pc /\ thrown' = thrown)]_vars

C13_Witness ==
  \E r, q \in Reqs :
    /\ pc[r] = "done" /\ runner[r] = "started" /\ job[r] = "running"
    /\ pc[q] = "done" /\ hpc[q] = "done" /\ err[q] # Null
    /\ Last(logs[OpOf(q)]).event \in TerminalEvents

\* C14: when the project does not exist, is pending, or the source
\* scenario of a clone does not exist in the project, the handler throws
\* the validation error to its caller and has created nothing: no scenario
\* row, no Operation, no log entry, no Service Runner.
Rejected(r) == thrown[r] \in ValidationErrs

C14_ValidationCreatesNothing ==
  /\ [](\A r \in Reqs :
          /\ (pc[r] \notin {"idle", "vproj"} /\ projects[arg[r][2]] = "absent")
             => thrown[r] = ProjectNotFoundMsg
          /\ (pc[r] \notin {"idle", "vproj"} /\ projects[arg[r][2]] = "pending")
             => thrown[r] = ProjectPendingMsg
          /\ Rejected(r) =>
               /\ pc[r] \in {"error", "failed"}
               /\ arg[r][3] = 0 /\ opId[r] = 0 /\ loaded[r] = 0
               /\ runner[r] = "none" /\ payload[r] = NoArgs)
  /\ [][\A r \in Reqs :
          /\ (/\ pc[r] = "vclone" /\ pc'[r] # "vclone"
              /\ form[r].rnSource = "clone"
              /\ ~ScenarioIn(arg[r][2], form[r].rnSourceScenario))
             => thrown'[r] = CloneNotFoundMsg
          /\ Rejected(r)' =>
               (\/ Rejected(r)
                \/ (/\ scenarios' = scenarios /\ ops' = ops
                    /\ logs' = logs /\ runner' = runner))]_vars

C14_Witness ==
  \E r, q \in Reqs :
    /\ pc[r] = "failed" /\ thrown[r] = CloneNotFoundMsg
    /\ pc[q] = "done" /\ opId[q] # 0
    /\ Len(scenarios) = Cardinality({i \in 1..Len(scenarios) :
                                      scenarios[i].name = MasterName}) + 1
    /\ Len(ops) = 1

\* C15: when no Operation exists for the triple, loadByData fails with
\* NotFound, startOperation goes on to start a new Operation and to log
\* start, and the NotFound error is not thrown to the caller.
C15_NotFoundIsNoConflict ==
  /\ [][\A r \in Reqs :
          (pc[r] = "load" /\ pc'[r] # "load" /\ OpsOf(arg[r]) = {})
          => (/\ lerr'[r] = NotFoundMsg /\ MatchNotExist(lerr'[r])
              /\ pc'[r] = "start" /\ thrown'[r] = NoErr)]_vars
  /\ [](\A r \in Reqs :
          (lerr[r] = NotFoundMsg) =>
            /\ pc[r] \in {"start", "log", "create", "reply", "done"}
            /\ thrown[r] = NoErr
            /\ pc[r] \in {"log", "create", "reply", "done"}
               => (opId[r] # 0 /\ ops[opId[r]] = arg[r])
            /\ pc[r] \in {"create", "reply", "done"}
               => Entry("start", "Operation started") \in
                    {logs[opId[r]][i] : i \in 1..Len(logs[opId[r]])})

C15_Witness ==
  \E r \in Reqs :
    /\ lerr[r] = NotFoundMsg /\ loaded[r] = 0 /\ pc[r] = "create"
    /\ CountEvents(logs[opId[r]], {"start"}) > 0

\* C16: a persistence error other than NotFound, from loadByData or from
\* start(), is thrown unchanged to the caller, and the request starts no
\* Operation and dispatches no Service Runner.
C16_PersistenceErrorPropagates ==
  \A r \in Reqs :
    /\ (lerr[r] \in DbErrs) =>
         /\ pc[r] \in {"error", "failed"} /\ thrown[r] = lerr[r]
         /\ opId[r] = 0 /\ runner[r] = "none"
    /\ (thrown[r] \in DbErrs) =>
         /\ pc[r] \in {"error", "failed"}
         /\ opId[r] = 0 /\ runner[r] = "none"

\* C17: once an Operation holds an error entry nothing is appended to it
\* any more and no runner is dispatched for it; a later attempt on the
\* triple starts an Operation with a new id.
C17_ErrorIsFinal ==
  [][\A id \in OpIds :
       HasEvent(logs[id], {"error"}) =>
         /\ logs'[id] = logs[id]
         /\ \A r \in Reqs :
              (~Dispatched(r) /\ Dispatched(r)') => payload'[r].opId # id
         /\ \A r \in Reqs : opId'[r] # opId[r] => opId'[r] # id
    ]_vars

\* C18: as long as the runner has not delivered its completion signal, and
\* the job has not finalised the Operation itself, the Operation stays
\* started: the orchestrator has no timeout and appends no terminal entry.
C18_NoSignalStaysRunning ==
  \A r \in Reqs :
    (runner[r] = "started" /\ jobFin[r] = "none")
    => (Started(OpOf(r)) /\ ~Completed(OpOf(r)) /\ hpc[r] = "none")

C18_Witness ==
  \E r \in Reqs :
    /\ runner[r] = "started" /\ job[r] = "running" /\ pc[r] = "done"
    /\ Started(OpOf(r))

\* C19: a dispatched runner carries projId, scId and opId, where opId is
\* the Operation its request started for that triple, persisted and given
\* its start entry before the dispatch.
HasStartLogged(log) ==
  \E i \in 1..Len(log) : log[i] = Entry("start", "Operation started")

C19_PayloadNamesStartedOperation ==
  /\ [](\A r \in Reqs :
          Dispatched(r) =>
            /\ OpOf(r) \in OpIds /\ OpOf(r) = opId[r]
            /\ ops[OpOf(r)] = <<OpName, payload[r].projId, payload[r].scId>>
            /\ ops[OpOf(r)] = arg[r]
            /\ HasStartLogged(logs[OpOf(r)]))
  /\ [][\A r \in Reqs :
          (~Dispatched(r) /\ Dispatched(r)') =>
            /\ opId[r] \in OpIds /\ payload'[r].opId = opId[r]
            /\ HasStartLogged(logs[opId[r]])]_vars

C19_Witness ==
  \E r \in Reqs :
    /\ runner[r] = "started" /\ job[r] = "none"
    /\ payload[r] = [projId |-> 1, scId |-> 1, opId |-> opId[r]]
    /\ opId[r] \in OpIds

\* C20: a completion with a null error leaves the Operation alone: the
\* handler ends at once, and neither that step nor any later one changes
\* the log of the runner's Operation.
C20_SuccessLeavesLog ==
  [][\A r \in Reqs :
       (runner'[r] = "completed" /\ err'[r] = Null) =>
         (hpc'[r] = "done" /\ logs'[OpOf(r)] = logs[OpOf(r)])]_vars

C20_Witness ==
  \E r \in Reqs :
    /\ runner[r] = "completed" /\ err[r] = Null /\ jobFin[r] = "none"
    /\ hpc[r] = "done" /\ Started(OpOf(r))


\* C21: an insert that violates the unique (project_id, name) constraint
\* reaches the route's catch as the DataConflictError 'Scenario name already
\* in use', any other insert error reaches it unchanged; either way the
\* request starts no Operation and dispatches no runner, and the insert of
\* a taken name adds no row.
C21_NameConflictStartsNothing ==
  /\ [](\A r \in Reqs :
          ierr[r] # NoErr =>
            /\ thrown[r] =
                 (IF ierr[r] = DuplicateKeyMsg THEN NameInUseMsg ELSE ierr[r])
            /\ pc[r] \in {"error", "failed"}
            /\ arg[r][3] = 0
            /\ opId[r] = 0 /\ loaded[r] = 0
            /\ runner[r] = "none" /\ handlers[r] = 0)
  /\ [][\A r \in Reqs :
          (/\ pc[r] = "insert" /\ pc'[r] # "insert"
           /\ \E i \in 1..Len(scenarios) :
                /\ scenarios[i].project_id = arg[r][2]
                /\ scenarios[i].name = form[r].name)
          => (/\ pc'[r] = "error"
              /\ ierr'[r] # NoErr
              /\ scenarios' = scenarios
              /\ ops' = ops /\ logs' = logs)]_vars

C21_Witness ==
  \E r, q \in Reqs :
    /\ ierr[r] = DuplicateKeyMsg /\ thrown[r] = NameInUseMsg
    /\ pc[r] = "failed" /\ replies[r] = 1
    /\ form[q].name = form[r].name
    /\ pc[q] = "done" /\ opId[q] # 0

\* The smallest number n >= 2 whose suffixed name no scenario of project p
\* has.
RowsOf(p) == {i \in 1..Len(scenarios) : scenarios[i].project_id = p}
HasName(p, n) == \E i \in RowsOf(p) : scenarios[i].name = n
SmallestFree(p, name) ==
  CHOOSE k \in 2..(Cardinality(RowsOf(p)) + 2) :
    /\ ~HasName(p, Append(name, k))
    /\ \A j \in 2..(k - 1) : HasName(p, Append(name, j))

\* C22: findName(name) returns name (n) for the smallest n >= 2 such that
\* no scenario of the project has that name, and it never tries a number
\* above the number of scenarios of the project plus two, so the search
\* ends on a finite table.
C22_FindNameSmallestFree ==
  /\ [](\A r \in Reqs :
          pc[r] = "dfind" =>
            no[r] \in 2..(Cardinality(RowsOf(arg[r][2])) + 2))
  /\ [][\A r \in Reqs :
          (pc[r] = "dfind" /\ pc'[r] # "dfind")
          => (/\ form'[r].name =
                   Append(form[r].name, SmallestFree(arg[r][2], form[r].name))
              /\ ~HasName(arg[r][2], form'[r].name))]_vars

C22_Witness ==
  \E r \in Reqs :
    /\ pc[r] = "done"
    /\ Len(form[r].name) = 2 /\ form[r].name[2] = 3
    /\ HasName(arg[r][2], Append(MasterName, 2))
    /\ HasName(arg[r][2], Append(MasterName, 3))

\* C23: the file DELETE route removes the file row and the stored object
\* only for a request whose project exists, is pending and owns the file;
\* any other request fails with ProjectNotFoundError, ProjectStatusError or
\* FileNotFoundError, checked in that order, and changes neither the rows
\* nor the objects.
C23_FileDeleteChecks ==
  /\ [](\A r \in Reqs :
          /\ dpc[r] \in {"reply", "done"}
             => (files[dparam[r].fileId] = 0 /\ dparam[r].fileId \notin store)
          /\ dpc[r] \in {"del", "rm", "reply", "done"} <=>
               (dpc[r] # "idle" /\ dpc[r] # "query" /\ derr[r] = NoErr))
  /\ [][/\ \A r \in Reqs :
            (dpc[r] = "query" /\ dpc'[r] # "query")
            => (/\ files' = files /\ store' = store
                /\ derr'[r] =
                     (IF projects[dparam[r].projId] = "absent"
                      THEN ProjectNotFoundMsg
                      ELSE IF projects[dparam[r].projId] # "pending"
                      THEN ProjectStatusMsg
                      ELSE IF files[dparam[r].fileId] # dparam[r].projId
                      THEN FileNotFoundMsg
                      ELSE NoErr)
                /\ dpc'[r] = (IF derr'[r] = NoErr THEN "del" ELSE "error"))
        /\ (files' # files \/ store' # store)
           => \E r \in Reqs :
                /\ dpc[r] \in {"del", "rm"} /\ dpc'[r] # dpc[r]
                /\ derr[r] = NoErr
                /\ \A g \in FileIds \ {dparam[r].fileId} :
                     files'[g] = files[g] /\ (g \in store' <=> g \in store)]_vars

C23_Witness ==
  \E r, q \in Reqs :
    /\ dpc[r] = "done"
    /\ dpc[q] = "failed" /\ derr[q] = FileNotFoundMsg
    /\ dparam[q] = dparam[r]

\* C24: whenever a live child of the timematrix server closes, a new child
\* is forked and cETA refers to it, and the server keeps running: as long
\* as the server runs, cETA is a live child.
C24_ChildRespawned ==
  /\ [](up => /\ cETA \in 1..Len(child)
              /\ child[cETA] = "live")
  /\ [][\A c \in 1..Len(child) :
          (child[c] = "live" /\ child'[c] = "closed")
          => (/\ Len(child') = Len(child) + 1
              /\ cETA' = Len(child')
              /\ child'[cETA'] = "live"
              /\ up' = up)]_vars

C24_Witness ==
  /\ up
  /\ Len(child) >= 3
  /\ child[1] = "closed" /\ child[2] = "closed"
  /\ child[cETA] = "live"

\* C25: startOperation is always called with the id of the scenario row
\* the same request inserted, no two requests call it with the same id,
\* and no request of the handler ever takes the 'Scenario creation already
\* in progress' branch.
C25_FreshScenarioNeverConflicts ==
  \A r \in Reqs :
    /\ pc[r] # "conflict" /\ thrown[r] # ConflictMsg /\ loaded[r] = 0
    /\ arg[r][3] # 0 =>
         /\ arg[r][3] \in 1..Len(scenarios)
         /\ scenarios[arg[r][3]].project_id = arg[r][2]
         /\ scenarios[arg[r][3]].name = form[r].name
         /\ scenarios[arg[r][3]].status = "pending"
         /\ \A q \in Reqs \ {r} : arg[q][3] # arg[r][3]
    /\ pc[r] \in {"load", "start", "log", "upload", "presign", "listen",
                  "create", "reply", "done"} => arg[r][3] # 0

C25_Witness ==
  \E r, q \in Reqs :
    /\ r # q
    /\ arg[r][2] = arg[q][2]
    /\ opId[r] # 0 /\ opId[q] # 0
    /\ pc[r] = "done" /\ pc[q] = "done"

\* C26: in scenarios--create.js, when the upload of a new road network
\* fails after startOperation succeeded, the error is replied (once), no
\* runner is dispatched, the Operation the request started gets no further
\* entry and stays started, and the scenario row stays pending.
UploadFailed(r) == variant = "routes" /\ thrown[r] \in S3Errs

C26_UploadFailureLeavesStarted ==
  /\ [](\A r \in Reqs :
          UploadFailed(r) =>
            /\ pc[r] \in {"error", "failed"}
            /\ replies[r] = (IF pc[r] = "failed" THEN 1 ELSE 0)
            /\ runner[r] = "none" /\ handlers[r] = 0 /\ job[r] = "none"
            /\ opId[r] # 0
            /\ Started(opId[r]) /\ ~Completed(opId[r])
            /\ scenarios[arg[r][3]].status = "pending")
  /\ [][\A r \in Reqs :
          UploadFailed(r) =>
            /\ UploadFailed(r)'
            /\ logs'[opId[r]] = logs[opId[r]]]_vars

C26_Witness ==
  \E r \in Reqs :
    /\ UploadFailed(r) /\ pc[r] = "failed"
    /\ Started(opId[r])
    /\ \E q \in Reqs : q # r /\ pc[q] = "done" /\ runner[q] = "completed"

\* C27: every request to the scenario-create route is answered by exactly
\* one call of reply: never more than one, and one when the request is
\* over.
C27_ExactlyOneReply ==
  \A r \in Reqs :
    /\ replies[r] <= 1
    /\ pc[r] \in {"done", "failed"} => replies[r] = 1

\* C28: duplicate requests can hold the same found name at once; of the
\* requests that reached the insert with the same name for the same
\* project (two of them, or more), exactly one inserted its row and every
\* other one failed with the name conflict; no two scenarios of a project
\* ever share a name.
PastInsert(r) ==
  pc[r] \notin {"idle", "dget", "dfind", "vproj", "vclone", "insert"}
Rivals(r) ==
  {q \in Reqs : /\ PastInsert(q)
                /\ form[q].name = form[r].name
                /\ arg[q][2] = arg[r][2]}

C28_DuplicateRaceOneWins ==
  /\ \A i, j \in 1..Len(scenarios) :
       (i # j /\ scenarios[i].project_id = scenarios[j].project_id)
       => scenarios[i].name # scenarios[j].name
  /\ \A r \in Reqs :
       (PastInsert(r) /\ form[r].name # <<>>)
       => /\ Cardinality({q \in Rivals(r) : arg[q][3] # 0}) = 1
          /\ \A q \in Rivals(r) :
               arg[q][3] = 0 => thrown[q] = NameInUseMsg

C28_Witness ==
  \E r, q \in Reqs :
    /\ r # q
    /\ form[r].name = form[q].name /\ Len(form[r].name) = 2
    /\ pc[r] = "done" /\ arg[r][3] # 0
    /\ pc[q] = "failed" /\ thrown[q] = NameInUseMsg

\* C29: each createTimeMatrix call adds one 'message' listener to the
\* child cETA refers to, so a child on which k requests were made has k
\* listeners.
C29_ListenersAccumulate ==
  \A c \in 1..Len(child) : Len(msgL[c]) = calls[c]

TypeOK ==
  /\ variant \in Variants
  /\ testMode \in BOOLEAN
  /\ Len(ops) = Len(logs)
  /\ \A r \in Reqs : opId[r] \in 0..Len(ops)
====
